---- MODULE Spec2Model ----
(***************************************************************************)
(* Model of the casino program (contracts/solana/src/lib.rs): the six      *)
(* instruction handlers over the ledger of accounts (lamports + data).     *)
(* Every handler is an operator from (ledger, accounts, arguments) to an   *)
(* outcome: the error it returns and the ledger it leaves.  The runtime    *)
(* applies an instruction atomically: an outcome with an error leaves the  *)
(* ledger as it was.                                                       *)
(***************************************************************************)
EXTENDS Integers, Sequences, FiniteSets, TLC

\* ------------------------------------------------------------------------
\* Machine integers.  u64 is modelled with the largest width the checker's
\* integers can hold; every product and sum is guarded before it is formed.
U64Max == 2147483647

\* Program constants.
BasisPoints == 10000
MaxHouseEdge == 1000

\* rent.minimum_balance(space) for the two record sizes (scaled).
RentCasino == 3
RentGame == 2

\* ------------------------------------------------------------------------
\* Identities and addresses.  An address is a pair <<tag, name>>.
Key(w) == <<"key", w>>
W1 == Key("w1")
W2 == Key("w2")
Wallets == {W1, W2}
GameIds == {"g1"}
Hashes == {"h1"}
ZeroHash == "h0"

\* Pubkey::find_program_address(&[b"casino", authority], program_id)
find_casino_state_address(authority) == <<"casino", authority[2]>>
\* Pubkey::find_program_address(&[game_id], program_id)
find_game_address(game_id) == <<"game", game_id>>

CasinoAddrs == {find_casino_state_address(w) : w \in Wallets}
GameAddrs == {find_game_address(g) : g \in GameIds}
RecordAddrs == CasinoAddrs \cup GameAddrs
Addrs == Wallets \cup RecordAddrs

\* ------------------------------------------------------------------------
\* Account data.
NoData == [kind |-> "none"]

CasinoState(authority, house_edge, min_bet, max_bet, operators) ==
    [kind |-> "casino", authority |-> authority, house_edge |-> house_edge,
     min_bet |-> min_bet, max_bet |-> max_bet, operators |-> operators]

GameState(player, bet_amount, is_settled, is_win, win_amount, result_hash) ==
    [kind |-> "game", player |-> player, bet_amount |-> bet_amount,
     is_settled |-> is_settled, is_win |-> is_win, win_amount |-> win_amount,
     result_hash |-> result_hash]

\* CasinoState::try_from_slice / GameState::try_from_slice: the two layouts
\* have no common length, so only a record of the right kind decodes.
IsCasino(d) == d.kind = "casino"
IsGame(d) == d.kind = "game"

\* Mutant of contains: no key is ever found.
contains_never(operators, k) == FALSE

\* Vec::contains
contains(operators, k) == \E i \in 1..Len(operators) : operators[i] = k

\* Iterator::position (1-based; 0 when absent)
position(operators, k) ==
    IF contains(operators, k)
    THEN CHOOSE i \in 1..Len(operators) :
            operators[i] = k /\ \A j \in 1..(i - 1) : operators[j] # k
    ELSE 0

\* Mutant of remove: the first element goes, whatever the index.
remove_first(operators, index) ==
    [i \in 1..(Len(operators) - 1) |-> operators[i + 1]]

\* Vec::remove(index)
remove(operators, index) ==
    [i \in 1..(Len(operators) - 1) |->
        IF i < index THEN operators[i] ELSE operators[i + 1]]

\* ------------------------------------------------------------------------
\* u64 arithmetic.
Num(v) == [ok |-> TRUE, v |-> v]
NoNum == [ok |-> FALSE, v |-> 0]

\* Mutant of checked_mul: a product that does not fit saturates.
checked_mul_saturating(a, b) ==
    IF b # 0 /\ a > U64Max \div b THEN Num(U64Max) ELSE Num(a * b)

checked_mul(a, b) ==
    IF b # 0 /\ a > U64Max \div b THEN NoNum ELSE Num(a * b)

checked_sub(a, b) == IF b > a THEN NoNum ELSE Num(a - b)

checked_div(a, b) == IF b = 0 THEN NoNum ELSE Num(a \div b)

unwrap_or(x, dflt) == IF x.ok THEN x.v ELSE dflt

\* `a -= b` on u64: with overflow checks the program aborts on underflow,
\* without them the result wraps modulo 2^64.
sub_assign(a, b, checks) ==
    IF b <= a THEN Num(a - b)
    ELSE IF checks THEN NoNum
    ELSE Num(U64Max - (b - a) + 1)

\* `a += b` on u64.
add_assign(a, b, checks) ==
    IF a <= U64Max - b THEN Num(a + b)
    ELSE IF checks THEN NoNum
    ELSE Num(a - (U64Max - b) - 1)

\* Option<T> / Result<T, E> of a decode: None is the empty set, Some(v) the
\* singleton {v}.
None == {}
Some(v) == {v}
is_some(o) == o # {}
unwrap(o) == CHOOSE v \in o : TRUE

\* Mutant of try_from_slice_game: an account without data decodes as the
\* all-zero record.
try_from_slice_game_zeroed(d) ==
    IF d.kind = "game" THEN Some(d)
    ELSE IF d.kind = "none"
         THEN Some(GameState(Key("default"), 0, FALSE, FALSE, 0, ZeroHash))
    ELSE None

\* GameState::try_from_slice(&game_account_info.data.borrow()): an error
\* unless the data is a game record.
try_from_slice_game(d) == IF IsGame(d) THEN Some(d) ELSE None

\* ------------------------------------------------------------------------
\* Outcomes.  `wrote` tells whether the handler had created, written or
\* transferred anything before it returned.
Ok(lam, dat) == [err |-> "Ok", wrote |-> TRUE, lamports |-> lam, data |-> dat]
Noop(lam, dat) == [err |-> "Ok", wrote |-> FALSE, lamports |-> lam, data |-> dat]
Err(e, lam, dat) == [err |-> e, wrote |-> FALSE, lamports |-> lam, data |-> dat]
ErrAfterWrite(e, lam, dat) ==
    [err |-> e, wrote |-> TRUE, lamports |-> lam, data |-> dat]

\* Mutant of create_account_err: only a configuration address can be in
\* use.
create_account_err_game_free(lam, dat, from, to, amount) ==
    IF to[1] = "casino" /\ (lam[to] > 0 \/ dat[to].kind # "none")
    THEN "AccountAlreadyInUse"
    ELSE IF lam[from] < amount THEN "ResultWithNegativeLamports"
    ELSE "Ok"

\* Mutant of create_account_err: an account in use is created again.
create_account_err_overwrite(lam, dat, from, to, amount) ==
    IF lam[from] < amount THEN "ResultWithNegativeLamports" ELSE "Ok"

\* system_instruction::create_account(from, to, lamports, space, owner),
\* invoked with the seeds of `to`: fails when `to` is in use or `from`
\* cannot pay.
create_account_err(lam, dat, from, to, amount) ==
    IF lam[to] > 0 \/ dat[to].kind # "none" THEN "AccountAlreadyInUse"
    ELSE IF lam[from] < amount THEN "ResultWithNegativeLamports"
    ELSE "Ok"

create_account_lamports(lam, from, to, amount) ==
    [lam EXCEPT ![from] = lam[from] - amount, ![to] = amount]

\* ------------------------------------------------------------------------
\* The checks of the handlers.

\* Mutants of invalid_house_edge: the limit off by one, either way.
invalid_house_edge_lax(house_edge) == house_edge > MaxHouseEdge + 1
invalid_house_edge_strict(house_edge) == house_edge >= MaxHouseEdge

\* house_edge > 1000 (process_initialize; the same test in
\* process_update_params)
invalid_house_edge(house_edge) == house_edge > MaxHouseEdge

\* Mutant of invalid_bet_bounds: the pair is not compared.
invalid_bet_bounds_never(min_bet, max_bet) == FALSE

\* min_bet > max_bet (process_initialize; the same test on the resulting
\* pair in process_update_params)
invalid_bet_bounds(min_bet, max_bet) == min_bet > max_bet

\* Mutant of address_mismatch: the supplied address is not compared.
address_mismatch_never(derived, key) == FALSE

\* casino_state_pubkey != *casino_state_info.key (process_initialize),
\* game_pubkey != *game_account_info.key (process_place_bet)
address_mismatch(derived, key) == derived # key

\* Mutant of apply_option: a present field is not applied.
apply_option_keep(field, option) == field

\* if let Some(v) = option { field = v } (process_update_params)
apply_option(field, option) ==
    IF is_some(option) THEN unwrap(option) ELSE field

\* Mutant of invalid_bet_amount: the upper limit left out.
invalid_bet_amount_no_max(bet_amount, cs) == bet_amount < cs.min_bet

\* bet_amount < min_bet || bet_amount > max_bet
invalid_bet_amount(bet_amount, cs) ==
    bet_amount < cs.min_bet \/ bet_amount > cs.max_bet

\* Mutant of insufficient_funds: the balance test left out.
insufficient_funds_never(lam, player, bet_amount) == FALSE

\* player_info.lamports() < bet_amount
insufficient_funds(lam, player, bet_amount) == lam[player] < bet_amount

\* Mutant of signer_is_authority: the authority test left out.
signer_is_authority_any(cs, key) == TRUE

\* *authority_info.key != casino_state.authority, negated
\* (process_update_params; the same test in process_add_operator and
\* process_remove_operator)
signer_is_authority(cs, key) == key = cs.authority

\* Mutant of signer_is_operator: the membership test left out.
signer_is_operator_any(cs, key) == TRUE

\* casino_state.operators.contains(authority_info.key)
signer_is_operator(cs, key) == contains(cs.operators, key)

\* Mutant of already_settled: the settled flag ignored.
already_settled_never(gs) == FALSE

\* game_state.is_settled
already_settled(gs) == gs.is_settled

\* Mutant of wrong_player: the supplied player is not compared.
wrong_player_never(gs, player_key) == FALSE

\* *player_info.key != game_state.player
wrong_player(gs, player_key) == player_key # gs.player

\* Mutant of exceeds_max_possible_win: the bound off by one.
exceeds_max_possible_win_lax(win_amount, bound) == win_amount > bound + 1

\* win_amount > max_possible_win
exceeds_max_possible_win(win_amount, bound) == win_amount > bound

\* Mutant of pays_out: a loss is paid like a win.
pays_out_always(is_win) == TRUE

\* if is_win { .. } (process_settle_game): the bound and the transfer are
\* for wins only.
pays_out(is_win) == is_win

\* Mutants of settled_game_state: the result hash is not stored; the bet
\* amount is overwritten with the win amount.
settled_game_state_no_hash(gs, is_win, win_amount, result_hash) ==
    GameState(gs.player, gs.bet_amount, TRUE, is_win, win_amount, gs.result_hash)
settled_game_state_bet_lost(gs, is_win, win_amount, result_hash) ==
    GameState(gs.player, win_amount, TRUE, is_win, win_amount, result_hash)

\* game_state.is_settled = true; game_state.is_win = is_win;
\* game_state.win_amount = win_amount; game_state.result_hash = result_hash
settled_game_state(gs, is_win, win_amount, result_hash) ==
    GameState(gs.player, gs.bet_amount, TRUE, is_win, win_amount, result_hash)

\* Mutant of removes_authority: the authority may be removed.
removes_authority_never(cs, operator_key) == FALSE

\* *operator_info.key == casino_state.authority
removes_authority(cs, operator_key) == operator_key = cs.authority

\* ------------------------------------------------------------------------
\* process_initialize
process_initialize(lam, dat, authority, is_signer, casino_state_key, house_edge, min_bet, max_bet) ==
    IF ~is_signer THEN Err("Unauthorized", lam, dat)
    ELSE IF invalid_house_edge(house_edge)
         THEN Err("InvalidHouseEdge", lam, dat)
    ELSE IF invalid_bet_bounds(min_bet, max_bet)
         THEN Err("InvalidBetAmount", lam, dat)
    ELSE IF address_mismatch(find_casino_state_address(authority),
                             casino_state_key)
         THEN Err("InvalidArgument", lam, dat)
    ELSE LET e == create_account_err(lam, dat, authority, casino_state_key,
                                     RentCasino)
         IN IF e # "Ok" THEN Err(e, lam, dat)
            ELSE Ok(create_account_lamports(lam, authority, casino_state_key,
                                            RentCasino),
                    [dat EXCEPT ![casino_state_key] =
                        CasinoState(authority, house_edge, min_bet, max_bet,
                                    <<authority>>)])

\* ------------------------------------------------------------------------
\* process_place_bet
process_place_bet(lam, dat, checks, player, is_signer, casino_state_key, game_key, game_id, bet_amount) ==
    IF ~is_signer THEN Err("Unauthorized", lam, dat)
    ELSE IF ~IsCasino(dat[casino_state_key]) THEN Err("BorshIoError", lam, dat)
    ELSE IF invalid_bet_amount(bet_amount, dat[casino_state_key])
         THEN Err("InvalidBetAmount", lam, dat)
    ELSE IF insufficient_funds(lam, player, bet_amount)
         THEN Err("InsufficientFunds", lam, dat)
    ELSE IF address_mismatch(find_game_address(game_id), game_key)
         THEN Err("InvalidArgument", lam, dat)
    ELSE LET e == create_account_err(lam, dat, player, game_key, RentGame)
         IN IF e # "Ok" THEN Err(e, lam, dat)
            ELSE LET lam1 == create_account_lamports(lam, player, game_key,
                                                     RentGame)
                     dat1 == [dat EXCEPT ![game_key] =
                                GameState(player, bet_amount, FALSE, FALSE, 0,
                                          ZeroHash)]
                     p == sub_assign(lam1[player], bet_amount, checks)
                     g == add_assign(lam1[game_key], bet_amount, checks)
                 IN IF ~p.ok \/ ~g.ok THEN ErrAfterWrite("Panic", lam, dat)
                    ELSE Ok([lam1 EXCEPT ![player] = p.v, ![game_key] = g.v],
                            dat1)

\* Mutant of max_possible_win: the bound of a house edge of 0.
max_possible_win_no_edge(bet_amount, house_edge) ==
    LET product == checked_mul(bet_amount, BasisPoints)
    IN IF ~product.ok THEN NoNum ELSE Num(bet_amount)

\* Mutant of max_possible_win: no bound.
max_possible_win_unbounded(bet_amount, house_edge) == Num(U64Max)

\* The payout bound of process_settle_game:
\* bet_amount.checked_mul(10000)?.checked_div(10000.checked_sub(edge).unwrap_or(1))?
max_possible_win(bet_amount, house_edge) ==
    LET product == checked_mul(bet_amount, BasisPoints)
    IN IF ~product.ok THEN NoNum
       ELSE checked_div(product.v,
                        unwrap_or(checked_sub(BasisPoints, house_edge), 1))

\* The win branch of process_settle_game, once the record is known open.
settle_win(lam, dat, checks, game_key, player_key, win_amount, settled) ==
    LET gs == dat[game_key]
        g == sub_assign(lam[game_key], win_amount, checks)
    IN IF ~g.ok THEN Err("Panic", lam, dat)
       ELSE LET lam1 == [lam EXCEPT ![game_key] = g.v]
                p == add_assign(lam1[player_key], win_amount, checks)
            IN IF ~p.ok THEN ErrAfterWrite("Panic", lam, dat)
               ELSE Ok([lam1 EXCEPT ![player_key] = p.v],
                       [dat EXCEPT ![game_key] = settled])

\* process_settle_game
process_settle_game(lam, dat, checks, authority, is_signer, casino_state_key, game_key, player_key, is_win, win_amount, result_hash) ==
    IF ~is_signer THEN Err("Unauthorized", lam, dat)
    ELSE IF ~IsCasino(dat[casino_state_key]) THEN Err("BorshIoError", lam, dat)
    ELSE IF ~signer_is_operator(dat[casino_state_key], authority)
         THEN Err("Unauthorized", lam, dat)
    ELSE IF ~is_some(try_from_slice_game(dat[game_key]))
         THEN Err("BorshIoError", lam, dat)
    ELSE IF already_settled(unwrap(try_from_slice_game(dat[game_key])))
         THEN Err("GameAlreadySettled", lam, dat)
    ELSE IF wrong_player(unwrap(try_from_slice_game(dat[game_key])), player_key)
         THEN Err("InvalidArgument", lam, dat)
    ELSE LET gs == unwrap(try_from_slice_game(dat[game_key]))
             settled == settled_game_state(gs, is_win, win_amount,
                                           result_hash)
             bound == max_possible_win(gs.bet_amount,
                                       dat[casino_state_key].house_edge)
         IN IF pays_out(is_win)
            THEN IF ~bound.ok THEN Err("ArithmeticOverflow", lam, dat)
                 ELSE IF exceeds_max_possible_win(win_amount, bound.v)
                      THEN Err("ExpectedAmountMismatch", lam, dat)
                 ELSE settle_win(lam, dat, checks, game_key, player_key,
                                 win_amount, settled)
            ELSE Ok(lam, [dat EXCEPT ![game_key] = settled])

\* process_update_params
process_update_params(lam, dat, authority, is_signer, casino_state_key, house_edge, min_bet, max_bet) ==
    IF ~is_signer THEN Err("Unauthorized", lam, dat)
    ELSE IF ~IsCasino(dat[casino_state_key]) THEN Err("BorshIoError", lam, dat)
    ELSE IF ~signer_is_authority(dat[casino_state_key], authority)
         THEN Err("Unauthorized", lam, dat)
    ELSE IF is_some(house_edge) /\ invalid_house_edge(unwrap(house_edge))
         THEN Err("InvalidHouseEdge", lam, dat)
    ELSE LET cs == dat[casino_state_key]
             edge1 == apply_option(cs.house_edge, house_edge)
             min1 == apply_option(cs.min_bet, min_bet)
             max1 == apply_option(cs.max_bet, max_bet)
         IN IF invalid_bet_bounds(min1, max1)
            THEN Err("InvalidBetAmount", lam, dat)
            ELSE Ok(lam, [dat EXCEPT ![casino_state_key] =
                            CasinoState(cs.authority, edge1, min1, max1,
                                        cs.operators)])

\* process_add_operator
process_add_operator(lam, dat, authority, is_signer, casino_state_key, operator_key) ==
    IF ~is_signer THEN Err("Unauthorized", lam, dat)
    ELSE IF ~IsCasino(dat[casino_state_key]) THEN Err("BorshIoError", lam, dat)
    ELSE IF ~signer_is_authority(dat[casino_state_key], authority)
         THEN Err("Unauthorized", lam, dat)
    ELSE IF ~contains(dat[casino_state_key].operators, operator_key)
         THEN Ok(lam, [dat EXCEPT ![casino_state_key].operators =
                            Append(@, operator_key)])
    ELSE Noop(lam, dat)

\* process_remove_operator
process_remove_operator(lam, dat, authority, is_signer, casino_state_key, operator_key) ==
    IF ~is_signer THEN Err("Unauthorized", lam, dat)
    ELSE IF ~IsCasino(dat[casino_state_key]) THEN Err("BorshIoError", lam, dat)
    ELSE IF ~signer_is_authority(dat[casino_state_key], authority)
         THEN Err("Unauthorized", lam, dat)
    ELSE IF removes_authority(dat[casino_state_key], operator_key)
         THEN Err("Unauthorized", lam, dat)
    ELSE LET index == position(dat[casino_state_key].operators, operator_key)
         IN IF index # 0
            THEN Ok(lam, [dat EXCEPT ![casino_state_key].operators =
                            remove(@, index)])
            ELSE Noop(lam, dat)

\* ------------------------------------------------------------------------
\* The wire format of CasinoInstruction (derive(BorshSerialize,
\* BorshDeserialize)): one byte for the variant, then the fields in order,
\* integers little-endian, Option as a tag byte 0 or 1 and then the value,
\* bool as a byte 0 or 1, [u8; 32] as its 32 bytes.

\* u64::to_le_bytes / u16::to_le_bytes
RECURSIVE to_le_bytes(_, _)
to_le_bytes(v, n) ==
    IF n = 0 THEN <<>> ELSE <<v % 256>> \o to_le_bytes(v \div 256, n - 1)

\* u64::from_le_bytes / u16::from_le_bytes
RECURSIVE from_le_bytes(_)
from_le_bytes(b) ==
    IF b = <<>> THEN 0 ELSE b[1] + 256 * from_le_bytes(Tail(b))

\* The [u8; 32] values that have a name in the model: 32 equal bytes.
Code32 == [g1 |-> 1, h0 |-> 0, h1 |-> 1, h2 |-> 2]
to_bytes32(name) == [i \in 1..32 |-> Code32[name]]
from_bytes32(b, names) ==
    IF \E n \in names : to_bytes32(n) = b
    THEN CHOOSE n \in names : to_bytes32(n) = b
    ELSE "other"

\* The instructions, decoded.
IxInitialize(house_edge, min_bet, max_bet) ==
    [kind |-> "Initialize", house_edge |-> house_edge, min_bet |-> min_bet,
     max_bet |-> max_bet]
IxPlaceBet(game_id, bet_amount) ==
    [kind |-> "PlaceBet", game_id |-> game_id, bet_amount |-> bet_amount]
IxSettleGame(is_win, win_amount, result_hash) ==
    [kind |-> "SettleGame", is_win |-> is_win, win_amount |-> win_amount,
     result_hash |-> result_hash]
IxUpdateParams(house_edge, min_bet, max_bet) ==
    [kind |-> "UpdateParams", house_edge |-> house_edge, min_bet |-> min_bet,
     max_bet |-> max_bet]
IxAddOperator == [kind |-> "AddOperator"]
IxRemoveOperator == [kind |-> "RemoveOperator"]

\* BorshSerialize for Option<u16> / Option<u64>
option_to_vec(option, n) ==
    IF is_some(option) THEN <<1>> \o to_le_bytes(unwrap(option), n) ELSE <<0>>

\* CasinoInstruction::try_to_vec (the instruction builders of client.rs)
try_to_vec(ix) ==
    CASE ix.kind = "Initialize" ->
            <<0>> \o to_le_bytes(ix.house_edge, 2) \o to_le_bytes(ix.min_bet, 8)
                  \o to_le_bytes(ix.max_bet, 8)
      [] ix.kind = "PlaceBet" ->
            <<1>> \o to_bytes32(ix.game_id) \o to_le_bytes(ix.bet_amount, 8)
      [] ix.kind = "SettleGame" ->
            <<2>> \o <<IF ix.is_win THEN 1 ELSE 0>>
                  \o to_le_bytes(ix.win_amount, 8) \o to_bytes32(ix.result_hash)
      [] ix.kind = "UpdateParams" ->
            <<3>> \o option_to_vec(ix.house_edge, 2)
                  \o option_to_vec(ix.min_bet, 8) \o option_to_vec(ix.max_bet, 8)
      [] ix.kind = "AddOperator" -> <<4>>
      [] ix.kind = "RemoveOperator" -> <<5>>

\* The result of reading a value off the front of a slice.
Parsed(v, rest) == [ok |-> TRUE, v |-> v, rest |-> rest]
NoParse == [ok |-> FALSE, v |-> 0, rest |-> <<>>]

read_bytes(data, n) ==
    IF Len(data) < n THEN NoParse
    ELSE Parsed(SubSeq(data, 1, n), SubSeq(data, n + 1, Len(data)))

read_uint(data, n) ==
    LET p == read_bytes(data, n)
    IN IF p.ok THEN Parsed(from_le_bytes(p.v), p.rest) ELSE NoParse

read_bytes32(data, names) ==
    LET p == read_bytes(data, 32)
    IN IF p.ok THEN Parsed(from_bytes32(p.v, names), p.rest) ELSE NoParse

read_bool(data) ==
    LET p == read_bytes(data, 1)
    IN IF p.ok /\ p.v[1] \in {0, 1} THEN Parsed(p.v[1] = 1, p.rest)
       ELSE NoParse

read_option_uint(data, n) ==
    LET tag == read_bytes(data, 1)
        value == read_uint(tag.rest, n)
    IN IF ~tag.ok THEN NoParse
       ELSE IF tag.v[1] = 0 THEN Parsed(None, tag.rest)
       ELSE IF tag.v[1] = 1 /\ value.ok THEN Parsed(Some(value.v), value.rest)
       ELSE NoParse

\* BorshDeserialize::deserialize for CasinoInstruction: the variant byte
\* and the fields of that variant, off the front of the slice.
deserialize_initialize(data) ==
    LET a == read_uint(data, 2)
        b == read_uint(a.rest, 8)
        c == read_uint(b.rest, 8)
    IN IF a.ok /\ b.ok /\ c.ok THEN Parsed(IxInitialize(a.v, b.v, c.v), c.rest)
       ELSE NoParse

deserialize_place_bet(data) ==
    LET a == read_bytes32(data, GameIds)
        b == read_uint(a.rest, 8)
    IN IF a.ok /\ b.ok THEN Parsed(IxPlaceBet(a.v, b.v), b.rest) ELSE NoParse

deserialize_settle_game(data) ==
    LET a == read_bool(data)
        b == read_uint(a.rest, 8)
        c == read_bytes32(b.rest, {"h0", "h1", "h2"})
    IN IF a.ok /\ b.ok /\ c.ok THEN Parsed(IxSettleGame(a.v, b.v, c.v), c.rest)
       ELSE NoParse

deserialize_update_params(data) ==
    LET a == read_option_uint(data, 2)
        b == read_option_uint(a.rest, 8)
        c == read_option_uint(b.rest, 8)
    IN IF a.ok /\ b.ok /\ c.ok
       THEN Parsed(IxUpdateParams(a.v, b.v, c.v), c.rest)
       ELSE NoParse

deserialize(data) ==
    IF data = <<>> THEN NoParse
    ELSE CASE data[1] = 0 -> deserialize_initialize(Tail(data))
           [] data[1] = 1 -> deserialize_place_bet(Tail(data))
           [] data[1] = 2 -> deserialize_settle_game(Tail(data))
           [] data[1] = 3 -> deserialize_update_params(Tail(data))
           [] data[1] = 4 -> Parsed(IxAddOperator, Tail(data))
           [] data[1] = 5 -> Parsed(IxRemoveOperator, Tail(data))
           [] OTHER -> NoParse

\* Mutant of not_all_bytes_read: bytes left over are ignored.
not_all_bytes_read_never(rest) == FALSE

\* try_from_slice: "Not all bytes read" when the slice is longer than the
\* value.
not_all_bytes_read(rest) == rest # <<>>

\* CasinoInstruction::try_from_slice(instruction_data)
try_from_slice_instruction(data) ==
    LET p == deserialize(data)
    IN IF p.ok /\ ~not_all_bytes_read(p.rest) THEN Some(p.v) ELSE None

\* The system program, last of the accounts of three instructions.
SystemProgram == <<"system", "program">>

\* process_instruction: decode, then the handler of the variant with the
\* accounts in their order (next_account_info); is_signer is the flag of
\* the first account.
process_instruction(lam, dat, checks, accounts, is_signer, instruction_data) ==
    LET decoded == try_from_slice_instruction(instruction_data)
        ix == unwrap(decoded)
        needs == CASE ix.kind = "Initialize" -> 3
                   [] ix.kind = "PlaceBet" -> 4
                   [] ix.kind = "SettleGame" -> 5
                   [] ix.kind = "UpdateParams" -> 2
                   [] OTHER -> 3
    IN IF ~is_some(decoded) THEN Err("InvalidInstruction", lam, dat)
       ELSE IF Len(accounts) < needs THEN Err("NotEnoughAccountKeys", lam, dat)
       ELSE CASE ix.kind = "Initialize" ->
                    process_initialize(lam, dat, accounts[1], is_signer,
                                       accounts[2], ix.house_edge, ix.min_bet,
                                       ix.max_bet)
              [] ix.kind = "PlaceBet" ->
                    process_place_bet(lam, dat, checks, accounts[1], is_signer,
                                      accounts[2], accounts[3], ix.game_id,
                                      ix.bet_amount)
              [] ix.kind = "SettleGame" ->
                    process_settle_game(lam, dat, checks, accounts[1],
                                        is_signer, accounts[2], accounts[3],
                                        accounts[4], ix.is_win, ix.win_amount,
                                        ix.result_hash)
              [] ix.kind = "UpdateParams" ->
                    process_update_params(lam, dat, accounts[1], is_signer,
                                          accounts[2], ix.house_edge,
                                          ix.min_bet, ix.max_bet)
              [] ix.kind = "AddOperator" ->
                    process_add_operator(lam, dat, accounts[1], is_signer,
                                         accounts[2], accounts[3])
              [] ix.kind = "RemoveOperator" ->
                    process_remove_operator(lam, dat, accounts[1], is_signer,
                                            accounts[2], accounts[3])

\* ------------------------------------------------------------------------
\* Bounds of the model: balances and instruction arguments.
PoorBalance == 43
RichBalance == 300000
BigBet == U64Max \div BasisPoints + 1

InitLamports(a) ==
    IF a = W1 THEN PoorBalance ELSE IF a = W2 THEN RichBalance ELSE 0

EdgeInputs == {0, MaxHouseEdge, MaxHouseEdge + 1}
MinInputs == {0, 50}
MaxInputs == {40, BigBet}
BetInputs == {0, 40, BigBet}
WinInputs == {0, 41, 44}
Opt(S) == {None} \cup {Some(v) : v \in S}

\* ------------------------------------------------------------------------
\* The ledger, and the build of the program that runs on it.
VARIABLES lamports, data, overflow_checks

vars == <<lamports, data, overflow_checks>>

Init ==
    /\ lamports = [a \in Addrs |-> InitLamports(a)]
    /\ data = [a \in Addrs |-> NoData]
    /\ overflow_checks \in BOOLEAN

\* The runtime commits the outcome of an instruction that returned Ok and
\* discards one that returned an error: a failed instruction leaves no
\* trace in the ledger.
Apply(o) ==
    /\ lamports' = o.lamports
    /\ data' = o.data
    /\ UNCHANGED overflow_checks

\* An instruction whose first account did not sign is rejected before any
\* argument is read: one representative of its arguments is enough.
Args(is_signer, S) == IF is_signer THEN S ELSE {CHOOSE x \in S : TRUE}

Initialize ==
    \E authority \in Wallets, is_signer \in BOOLEAN :
    \E key \in Args(is_signer, CasinoAddrs),
       house_edge \in Args(is_signer, EdgeInputs),
       min_bet \in Args(is_signer, MinInputs),
       max_bet \in Args(is_signer, MaxInputs) :
        Apply(process_initialize(lamports, data, authority, is_signer, key,
                                 house_edge, min_bet, max_bet))

PlaceBet ==
    \E player \in Wallets, is_signer \in BOOLEAN :
    \E casino \in Args(is_signer, RecordAddrs),
       game \in Args(is_signer, RecordAddrs),
       game_id \in GameIds,
       bet_amount \in Args(is_signer, BetInputs) :
        Apply(process_place_bet(lamports, data, overflow_checks, player,
                                is_signer, casino, game, game_id, bet_amount))

SettleGame ==
    \E authority \in Wallets, is_signer \in BOOLEAN :
    \E casino \in Args(is_signer, RecordAddrs),
       game \in Args(is_signer, RecordAddrs),
       player \in Args(is_signer, Wallets),
       is_win \in Args(is_signer, BOOLEAN),
       win_amount \in Args(is_signer, WinInputs),
       result_hash \in Args(is_signer, Hashes) :
        Apply(process_settle_game(lamports, data, overflow_checks, authority,
                                  is_signer, casino, game, player, is_win,
                                  win_amount, result_hash))

UpdateParams ==
    \E authority \in Wallets, is_signer \in BOOLEAN :
    \E casino \in Args(is_signer, RecordAddrs),
       house_edge \in Args(is_signer, Opt(EdgeInputs)),
       min_bet \in Args(is_signer, Opt(MinInputs)),
       max_bet \in Args(is_signer, Opt(MaxInputs)) :
        Apply(process_update_params(lamports, data, authority, is_signer,
                                    casino, house_edge, min_bet, max_bet))

AddOperator ==
    \E authority \in Wallets, is_signer \in BOOLEAN :
    \E casino \in Args(is_signer, RecordAddrs),
       operator \in Args(is_signer, Wallets) :
        Apply(process_add_operator(lamports, data, authority, is_signer,
                                   casino, operator))

RemoveOperator ==
    \E authority \in Wallets, is_signer \in BOOLEAN :
    \E casino \in Args(is_signer, RecordAddrs),
       operator \in Args(is_signer, Wallets) :
        Apply(process_remove_operator(lamports, data, authority, is_signer,
                                      casino, operator))

Next ==
    \/ Initialize
    \/ PlaceBet
    \/ SettleGame
    \/ UpdateParams
    \/ AddOperator
    \/ RemoveOperator

Spec == Init /\ [][Next]_vars

\* ========================================================================
\* Properties.
\*
\* A handler is a function of the ledger and its inputs, so a statement
\* "every instruction of this shape fails / succeeds" is a predicate on the
\* reachable ledger: it evaluates the handler on the current ledger for
\* every input of that shape.

Member(seq, x) == \E i \in DOMAIN seq : seq[i] = x
Casinos == {c \in Addrs : IsCasino(data[c])}
Games == {g \in Addrs : IsGame(data[g])}
OpenGames == {g \in Games : ~data[g].is_settled}
SettledGames == {g \in Games : data[g].is_settled}
Unchanged(o) == o.lamports = lamports /\ o.data = data

\* floor(bet * 10000 / (10000 - bps)) as a mathematical integer, formed
\* without any intermediate product above the integer range.
FloorBound(bet, bps) ==
    LET d == BasisPoints - bps
    IN (bet \div d) * BasisPoints + ((bet % d) * BasisPoints) \div d

\* bet * 10000 fits in u64.
ProductFits(bet) == bet <= U64Max \div BasisPoints

AllHashes == {"h0", "h1", "h2"}
AllEdges == {0, 1, 250, 999, MaxHouseEdge}
BadEdges == {MaxHouseEdge + 1, BasisPoints, 65535}
AllWins == {0, 1, 39, 40, 41, 42, 43, 44, 45, 46, BigBet,
            FloorBound(BigBet, MaxHouseEdge), FloorBound(BigBet, MaxHouseEdge) + 1}

Settle(authority, is_signer, casino, game, player, is_win, win_amount, h) ==
    process_settle_game(lamports, data, overflow_checks, authority, is_signer,
                        casino, game, player, is_win, win_amount, h)

\* ------------------------------------------------------------------------
\* C1: a settled game record stays settled and unchanged, and every
\* SettleGame on it that is signed by an operator of the supplied
\* configuration fails with GameAlreadySettled and changes neither a record
\* nor a balance, whatever is_win, win_amount, result_hash and player are
\* supplied.
C1_ResettleFails ==
    \A g \in SettledGames, c \in Casinos, a \in Wallets :
        Member(data[c].operators, a) =>
            \A p \in Addrs, w \in BOOLEAN, amt \in AllWins, h \in AllHashes :
                LET o == Settle(a, TRUE, c, g, p, w, amt, h)
                IN o.err = "GameAlreadySettled" /\ Unchanged(o)

C1_SettledIsFinal ==
    \A g \in Addrs :
        (IsGame(data[g]) /\ data[g].is_settled) => data'[g] = data[g]

C1_SettledStaysSettled == [](C1_ResettleFails) /\ [][C1_SettledIsFinal]_vars

C1_Witness ==
    \E g \in SettledGames, c \in Casinos :
        /\ data[g].is_win /\ data[g].win_amount > 0
        /\ Settle(data[c].authority, TRUE, c, g, data[g].player, TRUE, 1,
                  "h2").err = "GameAlreadySettled"

\* ------------------------------------------------------------------------
\* C2: a winning SettleGame that succeeds has win_amount <=
\* floor(bet_amount * 10000 / (10000 - house_edge)); one unit above that
\* bound a winning SettleGame by an operator on an open record fails and
\* leaves the ledger unchanged.
C2_SuccessWithinBound ==
    \A g \in Games, c \in Casinos, a \in Wallets, f \in BOOLEAN,
       p \in Wallets, amt \in AllWins :
        Settle(a, f, c, g, p, TRUE, amt, "h1").err = "Ok" =>
            amt <= FloorBound(data[g].bet_amount, data[c].house_edge)

\* The error one unit above the bound, for every operator-signed winning
\* settlement of an open record that names the stored player: always
\* ExpectedAmountMismatch, or ArithmeticOverflow when the product does not
\* fit.
C2_AboveBound(always_mismatch) ==
    \A g \in OpenGames, c \in Casinos, a \in Wallets :
        Member(data[c].operators, a) =>
            LET bet == data[g].bet_amount
                o == Settle(a, TRUE, c, g, data[g].player, TRUE,
                            FloorBound(bet, data[c].house_edge) + 1, "h1")
            IN /\ o.err = IF always_mismatch \/ ProductFits(bet)
                          THEN "ExpectedAmountMismatch"
                          ELSE "ArithmeticOverflow"
               /\ Unchanged(o)

\* C2 as stated: the error above the bound is always ExpectedAmountMismatch.
C2_Original == C2_SuccessWithinBound /\ C2_AboveBound(TRUE)

\* C2 amended: ExpectedAmountMismatch when bet_amount * 10000 fits in u64,
\* ArithmeticOverflow when it does not.
C2_PayoutBound == C2_SuccessWithinBound /\ C2_AboveBound(FALSE)

C2_Witness ==
    \E g \in OpenGames, c \in Casinos :
        /\ data[g].bet_amount = 40 /\ data[c].house_edge = MaxHouseEdge
        /\ Settle(data[c].authority, TRUE, c, g, data[g].player, TRUE, 45,
                  "h1").err = "ExpectedAmountMismatch"
        /\ Settle(data[c].authority, TRUE, c, g, data[g].player, TRUE, 41,
                  "h1").err = "Ok"

\* ------------------------------------------------------------------------
\* C3: on an open record whose bet_amount * 10000 fits in u64, a winning
\* SettleGame by an operator that names the stored player succeeds for
\* every win_amount up to the bound and moves exactly win_amount from the
\* record's balance to the player's.  Stated for the build with overflow
\* checks, in which no balance ever wraps.
C3_WinWithinBoundPays ==
    \A g \in OpenGames, c \in Casinos, a \in Wallets, amt \in AllWins :
        (/\ overflow_checks
         /\ Member(data[c].operators, a)
         /\ ProductFits(data[g].bet_amount)
         /\ amt <= FloorBound(data[g].bet_amount, data[c].house_edge)) =>
            LET p == data[g].player
                o == Settle(a, TRUE, c, g, p, TRUE, amt, "h1")
            IN /\ o.err = "Ok"
               /\ lamports[g] - o.lamports[g] = amt
               /\ o.lamports[p] - lamports[p] = amt

\* ------------------------------------------------------------------------
\* C4: no game record has paid out more than the bet_amount escrowed into
\* it: a record settled as a win has win_amount <= bet_amount, and its
\* balance still holds the storage deposit.  Stated for the build with
\* overflow checks, in which no balance ever wraps.
C4_PayoutWithinEscrow ==
    \A g \in SettledGames :
        (overflow_checks /\ data[g].is_win) =>
            /\ data[g].win_amount <= data[g].bet_amount
            /\ lamports[g] >= RentGame

\* ------------------------------------------------------------------------
\* C5: UpdateParams, AddOperator and RemoveOperator on a configuration
\* record fail with Unauthorized and change nothing unless the authority of
\* that record signed; whatever account is supplied, they change the ledger
\* only when it is a configuration record whose authority signed.
C5_Update(s, f, c, e, mn, mx) ==
    process_update_params(lamports, data, s, f, c, e, mn, mx)
C5_Add(s, f, c, op) == process_add_operator(lamports, data, s, f, c, op)
C5_Remove(s, f, c, op) == process_remove_operator(lamports, data, s, f, c, op)
C5_Rejected(o) == o.err = "Unauthorized" /\ Unchanged(o)
C5_Authorized(o, s, f, c) ==
    Unchanged(o) \/ (IsCasino(data[c]) /\ f /\ s = data[c].authority)

C5_OnlyAuthorityChangesConfig ==
    /\ \A c \in Casinos, s \in Wallets, f \in BOOLEAN :
          (~f \/ s # data[c].authority) =>
              /\ \A e \in Opt(EdgeInputs), mn \in Opt(MinInputs),
                    mx \in Opt(MaxInputs) :
                     C5_Rejected(C5_Update(s, f, c, e, mn, mx))
              /\ \A op \in Wallets :
                     /\ C5_Rejected(C5_Add(s, f, c, op))
                     /\ C5_Rejected(C5_Remove(s, f, c, op))
    /\ \A c \in Addrs, s \in Wallets, f \in BOOLEAN :
          /\ \A e \in Opt(EdgeInputs), mn \in Opt(MinInputs),
                mx \in Opt(MaxInputs) :
                 C5_Authorized(C5_Update(s, f, c, e, mn, mx), s, f, c)
          /\ \A op \in Wallets :
                 /\ C5_Authorized(C5_Add(s, f, c, op), s, f, c)
                 /\ C5_Authorized(C5_Remove(s, f, c, op), s, f, c)

\* A configuration with an added operator, on which that operator (who is
\* not the authority) signs the three instructions and is rejected.
C5_Witness ==
    \E c \in Casinos, s \in Wallets :
        /\ s # data[c].authority /\ Member(data[c].operators, s)
        /\ C5_Update(s, TRUE, c, Some(0), None, None).err = "Unauthorized"
        /\ C5_Add(s, TRUE, c, s).err = "Unauthorized"
        /\ C5_Remove(s, TRUE, c, s).err = "Unauthorized"

\* ------------------------------------------------------------------------
\* C6: SettleGame on a configuration record fails with Unauthorized and
\* changes nothing when its signer is not in operators or did not sign;
\* once the authority has added that identity with AddOperator, its
\* SettleGame on an open record has the outcome the authority's would have
\* (a loss settlement succeeds and settles the record).
C6_NonOperatorRejected ==
    \A c \in Casinos, s \in Wallets, f \in BOOLEAN :
        (~f \/ ~Member(data[c].operators, s)) =>
            \A g \in Addrs, p \in Wallets, w \in BOOLEAN, amt \in WinInputs :
                LET o == Settle(s, f, c, g, p, w, amt, "h1")
                IN o.err = "Unauthorized" /\ Unchanged(o)

C6_AddedOperatorSettles ==
    \A c \in Casinos, s \in Wallets :
        ~Member(data[c].operators, s) =>
            LET added == process_add_operator(lamports, data, data[c].authority,
                                              TRUE, c, s)
                after(g, w, amt) ==
                    process_settle_game(added.lamports, added.data,
                                        overflow_checks, s, TRUE, c, g,
                                        data[g].player, w, amt, "h1")
            IN /\ added.err = "Ok"
               /\ \A g \in OpenGames :
                    /\ after(g, FALSE, 0).err = "Ok"
                    /\ after(g, FALSE, 0).data[g].is_settled
                    /\ \A w \in BOOLEAN, amt \in AllWins :
                          after(g, w, amt).err =
                              Settle(data[c].authority, TRUE, c, g,
                                     data[g].player, w, amt, "h1").err

C7_AuthorityIsOperator ==
    /\ \A c \in Casinos : Member(data[c].operators, data[c].authority)
    /\ \A a \in Wallets, key \in CasinoAddrs, e \in EdgeInputs,
          mn \in MinInputs, mx \in MaxInputs :
          LET o == process_initialize(lamports, data, a, TRUE, key, e, mn, mx)
          IN o.err = "Ok" =>
                /\ o.data[key].authority = a
                /\ o.data[key].operators = <<a>>
    /\ \A c \in Casinos, s \in Wallets, f \in BOOLEAN :
          C5_Rejected(C5_Remove(s, f, c, data[c].authority))

\* A configuration with two operators, whose authority signs a
\* RemoveOperator naming itself.
C7_Witness ==
    \E c \in Casinos :
        /\ Len(data[c].operators) = 2
        /\ C5_Remove(data[c].authority, TRUE, c, data[c].authority).err
               = "Unauthorized"

\* ------------------------------------------------------------------------
\* C8: every configuration record has 0 <= house_edge <= 1000 and
\* min_bet <= max_bet.
C8_ConfigWellFormed ==
    \A c \in Casinos :
        /\ 0 <= data[c].house_edge /\ data[c].house_edge <= 1000
        /\ data[c].min_bet <= data[c].max_bet

\* A configuration at both limits: house_edge 1000, and min_bet above the
\* smaller max_bet input, which only an update of both bounds or an
\* Initialize with both can produce.
C8_Witness ==
    \E c \in Casinos :
        /\ data[c].house_edge = MaxHouseEdge
        /\ data[c].min_bet = 50 /\ data[c].max_bet = BigBet

\* ------------------------------------------------------------------------
\* C9: house_edge validation.  For an authority without a configuration
\* record, a signed Initialize at the derived address with min_bet <=
\* max_bet is rejected with InvalidHouseEdge, creating nothing, for every
\* house_edge > 1000, and an authority-signed UpdateParams that supplies a
\* house_edge > 1000 is rejected with InvalidHouseEdge; for every
\* house_edge in 0..1000 Initialize succeeds (whatever the authority's
\* balance, or when it covers the storage deposit) and creates the record
\* with that house_edge.
C9_Init(a, e, mn, mx) ==
    process_initialize(lamports, data, a, TRUE, find_casino_state_address(a),
                       e, mn, mx)

C9_HouseEdge(any_balance) ==
    /\ \A a \in Wallets, mn \in MinInputs, mx \in MaxInputs :
          (data[find_casino_state_address(a)] = NoData /\ mn <= mx) =>
              /\ \A e \in AllEdges :
                    (any_balance \/ lamports[a] >= RentCasino) =>
                        /\ C9_Init(a, e, mn, mx).err = "Ok"
                        /\ C9_Init(a, e, mn, mx)
                              .data[find_casino_state_address(a)].house_edge = e
              /\ \A e \in BadEdges :
                    /\ C9_Init(a, e, mn, mx).err = "InvalidHouseEdge"
                    /\ Unchanged(C9_Init(a, e, mn, mx))
    /\ \A c \in Casinos, e \in BadEdges, mn \in Opt(MinInputs),
          mx \in Opt(MaxInputs) :
          LET o == C5_Update(data[c].authority, TRUE, c, Some(e), mn, mx)
          IN o.err = "InvalidHouseEdge" /\ Unchanged(o)

\* C9 as stated: Initialize succeeds whatever the authority's balance.
C9_Original == C9_HouseEdge(TRUE)

\* C9 amended: Initialize succeeds when the authority's balance covers the
\* storage deposit of the new record.
C9_HouseEdgeLimit == C9_HouseEdge(FALSE)

\* One authority holds a record with house_edge 1000; another, without a
\* record, is accepted with 1000 and rejected with 1001.
C9_Witness ==
    \E c \in Casinos, a \in Wallets :
        /\ data[c].house_edge = MaxHouseEdge
        /\ data[find_casino_state_address(a)] = NoData
        /\ C9_Init(a, MaxHouseEdge, 0, 40).err = "Ok"
        /\ C9_Init(a, MaxHouseEdge + 1, 0, 40).err = "InvalidHouseEdge"

\* ------------------------------------------------------------------------
\* C10: once an authority's configuration record exists it exists forever,
\* and every Initialize signed or not by that authority, at any address and
\* with any parameters, fails and changes nothing.
C10_ReinitFails ==
    \A a \in Wallets :
        IsCasino(data[find_casino_state_address(a)]) =>
            \A f \in BOOLEAN, key \in Addrs, e \in AllEdges \cup BadEdges,
               mn \in MinInputs, mx \in MaxInputs :
                LET o == process_initialize(lamports, data, a, f, key, e,
                                            mn, mx)
                IN o.err # "Ok" /\ Unchanged(o)

C10_RecordRemains ==
    \A c \in Addrs : IsCasino(data[c]) => IsCasino(data'[c])

C10_InitializeOnce == [](C10_ReinitFails) /\ [][C10_RecordRemains]_vars

\* A record that has been updated since (an operator was added), whose
\* authority signs Initialize again at the derived address.
C10_Witness ==
    \E a \in Wallets :
        /\ IsCasino(data[find_casino_state_address(a)])
        /\ Len(data[find_casino_state_address(a)].operators) = 2
        /\ process_initialize(lamports, data, a, TRUE,
                              find_casino_state_address(a), 0, 0, 40).err
               = "AccountAlreadyInUse"

\* ------------------------------------------------------------------------
\* Helpers of the PlaceBet claims.
AllBets == {0, 1, 39, 40, 41, 49, 50, 51, BigBet - 1, BigBet, BigBet + 1}

Place(player, is_signer, casino, game, game_id, bet_amount) ==
    process_place_bet(lamports, data, overflow_checks, player, is_signer,
                      casino, game, game_id, bet_amount)

InRange(bet, c) == data[c].min_bet <= bet /\ bet <= data[c].max_bet

\* ------------------------------------------------------------------------
\* C11: a signed PlaceBet whose bet_amount is below min_bet or above max_bet
\* of the supplied configuration record fails with InvalidBetAmount and
\* changes nothing, whatever game account and game_id it names (unsigned it
\* changes nothing either); a signed PlaceBet with min_bet <= bet_amount <=
\* max_bet at the derived address of a game_id without a record, by a
\* player whose balance covers bet_amount and the storage deposit of the
\* record, succeeds and creates exactly the record (player = signer,
\* bet_amount, is_settled = false, no win, zero hash).
C11_OutOfRangeRejected ==
    \A c \in Casinos, p \in Wallets, g \in Addrs, id \in GameIds,
       bet \in AllBets :
        ~InRange(bet, c) =>
            /\ Place(p, TRUE, c, g, id, bet).err = "InvalidBetAmount"
            /\ Unchanged(Place(p, TRUE, c, g, id, bet))
            /\ Unchanged(Place(p, FALSE, c, g, id, bet))

C11_InRangeAccepted ==
    \A c \in Casinos, p \in Wallets, id \in GameIds, bet \in AllBets :
        LET g == find_game_address(id)
            o == Place(p, TRUE, c, g, id, bet)
        IN (/\ InRange(bet, c)
            /\ data[g] = NoData
            /\ lamports[p] >= bet + RentGame) =>
               /\ o.err = "Ok"
               /\ o.data = [data EXCEPT ![g] =
                               GameState(p, bet, FALSE, FALSE, 0, ZeroHash)]

C11_BetRange == C11_OutOfRangeRejected /\ C11_InRangeAccepted

\* An open record of bet_amount 40 placed under a configuration with
\* max_bet 40, against which 41 is rejected, and a player without a record
\* to whom the same configuration refuses 41 and BigBet.
C11_Witness ==
    \E c \in Casinos, g \in OpenGames :
        /\ data[c].min_bet = 0 /\ data[c].max_bet = 40
        /\ data[g].bet_amount = 40
        /\ data[g] = GameState(data[g].player, 40, FALSE, FALSE, 0, ZeroHash)
        /\ Place(data[g].player, TRUE, c, g, "g1", 41).err = "InvalidBetAmount"
        /\ Place(data[g].player, TRUE, c, g, "g1", BigBet).err
               = "InvalidBetAmount"

\* ------------------------------------------------------------------------
\* C12: a PlaceBet with bet_amount = 0 is rejected and changes nothing
\* under every configuration record, also one with min_bet = 0, and no game
\* record has bet_amount = 0.
C12_ZeroBetRejected ==
    /\ \A c \in Casinos, p \in Wallets, f \in BOOLEAN, g \in Addrs,
          id \in GameIds :
          /\ Place(p, f, c, g, id, 0).err # "Ok"
          /\ Unchanged(Place(p, f, c, g, id, 0))
    /\ \A g \in Games : data[g].bet_amount # 0

\* ------------------------------------------------------------------------
\* C13: a game address holds at most one record for ever.  On a ledger
\* with a record at the address of game_id, every PlaceBet naming that
\* address, by the same or another player, fails and changes nothing, and
\* fails with AccountAlreadyInUse when it is signed, in range and funded;
\* of two PlaceBet instructions for the same game_id applied one after the
\* other, when the first succeeds the second fails in that way and leaves
\* the ledger the first one made; and no step changes the player or the
\* bet_amount of a record.
C13_SecondPlaceBetFails ==
    \A g \in Games, c \in Casinos, p \in Wallets, f \in BOOLEAN,
       id \in GameIds, bet \in AllBets :
        LET o == Place(p, f, c, g, id, bet)
        IN /\ o.err # "Ok"
           /\ Unchanged(o)
           /\ (f /\ InRange(bet, c) /\ lamports[p] >= bet
                  /\ g = find_game_address(id)) =>
                  o.err = "AccountAlreadyInUse"

C13_FirstPlaceBetWins ==
    \A c \in Casinos, p1 \in Wallets, p2 \in Wallets, id \in GameIds,
       b1 \in AllBets, b2 \in AllBets :
        LET g == find_game_address(id)
            o1 == Place(p1, TRUE, c, g, id, b1)
            o2 == process_place_bet(o1.lamports, o1.data, overflow_checks,
                                    p2, TRUE, c, g, id, b2)
        IN (data[g] = NoData /\ o1.err = "Ok") =>
               /\ o2.err # "Ok"
               /\ o2.lamports = o1.lamports
               /\ o2.data = o1.data
               /\ o2.data[g].player = p1 /\ o2.data[g].bet_amount = b1
               /\ (InRange(b2, c) /\ o1.lamports[p2] >= b2) =>
                      o2.err = "AccountAlreadyInUse"

C13_RecordKept ==
    \A g \in Addrs :
        IsGame(data[g]) =>
            /\ IsGame(data'[g])
            /\ data'[g].player = data[g].player
            /\ data'[g].bet_amount = data[g].bet_amount

C13_OneRecordPerGameId ==
    /\ [](C13_SecondPlaceBetFails /\ C13_FirstPlaceBetWins)
    /\ [][C13_RecordKept]_vars

\* A record placed by one player, for whose game_id both that player and
\* the other one, in range and funded, are refused.
C13_Witness ==
    \E g \in Games, c \in Casinos, q \in Wallets :
        /\ q # data[g].player
        /\ InRange(40, c) /\ lamports[q] >= 40 + RentGame
        /\ lamports[data[g].player] >= 40 + RentGame
        /\ Place(q, TRUE, c, g, "g1", 40).err = "AccountAlreadyInUse"
        /\ Place(data[g].player, TRUE, c, g, "g1", 40).err
               = "AccountAlreadyInUse"

\* ------------------------------------------------------------------------
\* C14: a successful PlaceBet takes exactly bet_amount from the player's
\* balance, and the new record holds exactly bet_amount above its storage
\* deposit.
C14_BetMovesExactly ==
    \A c \in Casinos, p \in Wallets, id \in GameIds, bet \in AllBets :
        LET g == find_game_address(id)
            o == Place(p, TRUE, c, g, id, bet)
        IN (data[g] = NoData /\ o.err = "Ok") =>
               /\ lamports[p] - o.lamports[p] = bet
               /\ o.lamports[g] - RentGame = bet

\* ------------------------------------------------------------------------
\* C15: after a successful PlaceBet of bet_amount and then a successful
\* winning SettleGame of win_amount on the record it made, the player's
\* balance is the balance before the bet - bet_amount + win_amount.
C15_BalanceAfterWin ==
    \A c \in Casinos, p \in Wallets, a \in Wallets, id \in GameIds,
       bet \in AllBets, win \in AllWins :
        LET g == find_game_address(id)
            o1 == Place(p, TRUE, c, g, id, bet)
            o2 == process_settle_game(o1.lamports, o1.data, overflow_checks,
                                      a, TRUE, c, g, p, TRUE, win, "h1")
        IN (data[g] = NoData /\ o1.err = "Ok" /\ o2.err = "Ok") =>
               o2.lamports[p] - lamports[p] = win - bet

\* ------------------------------------------------------------------------
\* C16: a PlaceBet by a player whose balance is less than bet_amount fails
\* and changes no record and no balance, whatever accounts it names; when
\* it is signed and bet_amount is within the range of the supplied
\* configuration record, it fails with InsufficientFunds.
C16_UnfundedBetRejected ==
    \A c \in Casinos, p \in Wallets, f \in BOOLEAN, g \in Addrs,
       id \in GameIds, bet \in AllBets :
        lamports[p] < bet =>
            LET o == Place(p, f, c, g, id, bet)
            IN /\ o.err # "Ok"
               /\ Unchanged(o)
               /\ (f /\ InRange(bet, c)) => o.err = "InsufficientFunds"

\* A player who has paid a storage deposit and whose balance is one unit
\* short of a bet in range, for a game_id without a record.
C16_Witness ==
    \E c \in Casinos, p \in Wallets :
        /\ lamports[p] = 40 /\ InRange(41, c)
        /\ data[find_game_address("g1")] = NoData
        /\ Place(p, TRUE, c, find_game_address("g1"), "g1", 41).err
               = "InsufficientFunds"
        /\ Place(p, TRUE, c, find_game_address("g1"), "g1", BigBet).err
               = "InsufficientFunds"

\* ------------------------------------------------------------------------
\* C17: on an open game record, a SettleGame that names a player other
\* than the stored one fails and changes neither a record nor a balance,
\* for every signer, signed or not, every configuration account, is_win
\* and win_amount; signed by an operator of the supplied configuration it
\* fails with InvalidArgument.
C17_WrongPlayerRejected ==
    \A g \in OpenGames, p \in Addrs, s \in Wallets, f \in BOOLEAN,
       c \in Addrs, w \in BOOLEAN, amt \in AllWins :
        p # data[g].player =>
            LET o == Settle(s, f, c, g, p, w, amt, "h1")
            IN /\ o.err # "Ok"
               /\ Unchanged(o)
               /\ (f /\ IsCasino(data[c]) /\ Member(data[c].operators, s))
                      => o.err = "InvalidArgument"

\* An open record whose settlement by the authority as a loss and as a win
\* within the bound is refused for the other wallet and accepted for the
\* stored player.
C17_Witness ==
    \E g \in OpenGames, c \in Casinos, q \in Wallets :
        /\ q # data[g].player
        /\ Settle(data[c].authority, TRUE, c, g, q, FALSE, 0, "h1").err
               = "InvalidArgument"
        /\ Settle(data[c].authority, TRUE, c, g, q, TRUE, 1, "h1").err
               = "InvalidArgument"
        /\ Settle(data[c].authority, TRUE, c, g, data[g].player, TRUE, 1,
                  "h1").err = "Ok"

\* ------------------------------------------------------------------------
\* C18: a SettleGame whose game account holds no game record fails,
\* creates no record and moves no value, for every signer, configuration
\* account, player, is_win and win_amount; signed by an operator of the
\* supplied configuration record (the authority included) it fails with
\* the decode error of the missing record.
C18_NoRecordNoSettle ==
    \A g \in Addrs, s \in Wallets, f \in BOOLEAN, c \in Addrs,
       p \in Wallets, w \in BOOLEAN, amt \in WinInputs :
        ~IsGame(data[g]) =>
            LET o == Settle(s, f, c, g, p, w, amt, "h1")
            IN /\ o.err # "Ok"
               /\ Unchanged(o)
               /\ (f /\ IsCasino(data[c]) /\ Member(data[c].operators, s))
                      => o.err = "BorshIoError"

\* A configuration with two operators and no record at the game address:
\* the authority's and the other operator's settlements are refused.
C18_Witness ==
    \E c \in Casinos, s \in Wallets :
        /\ data[find_game_address("g1")] = NoData
        /\ s # data[c].authority /\ Member(data[c].operators, s)
        /\ Settle(data[c].authority, TRUE, c, find_game_address("g1"), s,
                  FALSE, 0, "h1").err = "BorshIoError"
        /\ Settle(s, TRUE, c, find_game_address("g1"), s, TRUE, 1,
                  "h1").err = "BorshIoError"

\* ------------------------------------------------------------------------
\* Helpers of the operator claims.
AddOp(c, k) == process_add_operator(lamports, data, data[c].authority, TRUE, c, k)
RemoveOp(c, k) == process_remove_operator(lamports, data, data[c].authority, TRUE, c, k)
Elems(seq) == {seq[i] : i \in DOMAIN seq}
NoDuplicates(seq) == \A i, j \in DOMAIN seq : seq[i] = seq[j] => i = j
\* seq without its element k, in the order of seq.
Without(seq, k) == SelectSeq(seq, LAMBDA x : x # k)

C20_RemoveFrom(lam, dat, c, k) ==
    LET cs == dat[c]
        o == process_remove_operator(lam, dat, cs.authority, TRUE, c, k)
    IN IF k = cs.authority THEN TRUE
       ELSE /\ o.err = "Ok"
            /\ o.lamports = lam
            /\ o.data = [dat EXCEPT ![c].operators = Without(cs.operators, k)]
            /\ ~Member(o.data[c].operators, k)
            /\ \A m \in Elems(cs.operators) :
                   m # k => Member(o.data[c].operators, m)
            /\ ~Member(cs.operators, k) => (o.data = dat)

BetVals == {0, 1, 40, 41, 50, BigBet, BigBet + 1}
\* The value a field has after an update that gives `option` for it.
Given(option, old) == IF option = {} THEN old ELSE CHOOSE v \in option : TRUE
UpdateBy(c, e, mn, mx) ==
    process_update_params(lamports, data, data[c].authority, TRUE, c, e, mn, mx)

C22_InvertedBoundsRejected ==
    /\ \A a \in Wallets, key \in Addrs, e \in AllEdges, mn \in BetVals,
          mx \in BetVals :
          mn > mx =>
              LET o == process_initialize(lamports, data, a, TRUE, key, e,
                                          mn, mx)
              IN o.err = "InvalidBetAmount" /\ Unchanged(o)
    /\ \A c \in Casinos, e \in Opt(AllEdges), mn \in BetVals,
          mx \in BetVals :
          mn > mx =>
              LET o == UpdateBy(c, e, Some(mn), Some(mx))
              IN o.err = "InvalidBetAmount" /\ Unchanged(o)

\* One authority holds a configuration, the other none: the second one's
\* Initialize with bounds 50 > 40 and the first one's UpdateParams with
\* the same pair are refused, and both are accepted with 40 <= 50.
C22_Witness ==
    \E c \in Casinos, a \in Wallets :
        /\ data[find_casino_state_address(a)] = NoData
        /\ lamports[a] >= RentCasino
        /\ C9_Init(a, 0, 50, 40).err = "InvalidBetAmount"
        /\ C9_Init(a, 0, 40, 50).err = "Ok"
        /\ UpdateBy(c, None, Some(50), Some(40)).err = "InvalidBetAmount"
        /\ UpdateBy(c, None, Some(40), Some(50)).err = "Ok"

\* ------------------------------------------------------------------------
\* C23: an UpdateParams signed by the authority that supplies min_bet = 0
\* fails and changes nothing, whatever house_edge and max_bet it supplies.
C23_ZeroMinBetRejected ==
    \A c \in Casinos, e \in Opt(AllEdges), mx \in Opt(BetVals) :
        LET o == UpdateBy(c, e, Some(0), mx)
        IN o.err # "Ok" /\ Unchanged(o)

\* ------------------------------------------------------------------------
\* C24: an instruction that fails has created, written and transferred
\* nothing by the time it fails, and leaves every record and every balance
\* as it was, in each of the six handlers.
C24_Clean(o) == o.err # "Ok" => (~o.wrote /\ Unchanged(o))

C24_ValidateBeforeWrite ==
    \A s \in Wallets, f \in BOOLEAN, c \in RecordAddrs :
        /\ \A e \in EdgeInputs, mn \in MinInputs, mx \in MaxInputs :
              C24_Clean(process_initialize(lamports, data, s, f, c, e, mn, mx))
        /\ \A g \in RecordAddrs, id \in GameIds, bet \in AllBets :
              C24_Clean(Place(s, f, c, g, id, bet))
        /\ \A g \in RecordAddrs, p \in Wallets, w \in BOOLEAN,
              amt \in WinInputs :
              C24_Clean(Settle(s, f, c, g, p, w, amt, "h1"))
        /\ \A e \in Opt(EdgeInputs), mn \in Opt(MinInputs),
              mx \in Opt(MaxInputs) :
              C24_Clean(C5_Update(s, f, c, e, mn, mx))
        /\ \A op \in Wallets :
              /\ C24_Clean(C5_Add(s, f, c, op))
              /\ C24_Clean(C5_Remove(s, f, c, op))

\* ------------------------------------------------------------------------
\* C25: an Initialize whose configuration address is not the one derived
\* from its signer, and a PlaceBet whose game address is not the one
\* derived from its game_id, fail and create nothing, at the supplied
\* address or elsewhere; when the instruction is signed and passes the
\* tests made before the address is derived (house_edge and bounds for
\* Initialize; configuration, range and funds for PlaceBet) the error is
\* the one named: AddressMismatch as stated, InvalidArgument as amended.
C25_WrongAddress(as_stated) ==
    LET mismatch == IF as_stated THEN "AddressMismatch" ELSE "InvalidArgument"
    IN /\ \A a \in Wallets, f \in BOOLEAN, key \in Addrs, e \in AllEdges,
             mn \in MinInputs, mx \in MaxInputs :
             key # find_casino_state_address(a) =>
                 LET o == process_initialize(lamports, data, a, f, key, e,
                                             mn, mx)
                 IN /\ o.err # "Ok"
                    /\ Unchanged(o)
                    /\ (f /\ mn <= mx) => o.err = mismatch
       /\ \A c \in Casinos, p \in Wallets, f \in BOOLEAN, g \in Addrs,
             id \in GameIds, bet \in AllBets :
             g # find_game_address(id) =>
                 LET o == Place(p, f, c, g, id, bet)
                 IN /\ o.err # "Ok"
                    /\ Unchanged(o)
                    /\ (f /\ InRange(bet, c) /\ lamports[p] >= bet) =>
                           o.err = mismatch

C26_ConfigOfSigner ==
    \A c \in Casinos, s \in Wallets :
        c # find_casino_state_address(s) =>
            /\ \A e \in Opt(EdgeInputs), mn \in Opt(MinInputs),
                  mx \in Opt(MaxInputs) :
                  LET o == C5_Update(s, TRUE, c, e, mn, mx)
                  IN o.err # "Ok" /\ Unchanged(o)
            /\ \A op \in Wallets :
                  /\ C5_Add(s, TRUE, c, op).err # "Ok"
                  /\ Unchanged(C5_Add(s, TRUE, c, op))
                  /\ C5_Remove(s, TRUE, c, op).err # "Ok"
                  /\ Unchanged(C5_Remove(s, TRUE, c, op))

C26_GameOfGameId ==
    \A c \in Casinos, p \in Wallets, g \in Addrs, id \in GameIds,
       bet \in BetInputs :
        g # find_game_address(id) =>
            /\ Place(p, TRUE, c, g, id, bet).err # "Ok"
            /\ Unchanged(Place(p, TRUE, c, g, id, bet))

C26_ConfigOfGame ==
    \A c \in Casinos, p \in Wallets, id \in GameIds, bet \in BetInputs,
       w \in BOOLEAN, amt \in WinInputs :
        LET g == find_game_address(id)
            own == find_casino_state_address(p)
            placed == Place(p, TRUE, c, g, id, bet)
            made == process_initialize(placed.lamports, placed.data, p, TRUE,
                                       own, MaxHouseEdge, 0, BigBet)
            settled == process_settle_game(made.lamports, made.data,
                                           overflow_checks, p, TRUE, own, g,
                                           p, w, amt, "h1")
        IN (/\ own # c
            /\ ~Member(data[c].operators, p)
            /\ placed.err = "Ok"
            /\ made.err = "Ok") => settled.err # "Ok"

C26_RederiveEverywhere ==
    C26_ConfigOfSigner /\ C26_GameOfGameId /\ C26_ConfigOfGame

\* ------------------------------------------------------------------------
\* C27: on an open record, a SettleGame with is_win = false signed by an
\* operator of the supplied configuration and naming the stored player
\* succeeds, whatever win_amount and result_hash it carries; a successful
\* one changes no balance (the stake stays under the record) and changes
\* nothing but the game record, which becomes settled with is_win = false
\* and keeps its player and bet_amount.
C27_LossMovesNothing ==
    \A g \in OpenGames, c \in Casinos, s \in Wallets, p \in Wallets,
       amt \in AllWins, h \in AllHashes :
        LET o == Settle(s, TRUE, c, g, p, FALSE, amt, h)
        IN /\ (Member(data[c].operators, s) /\ p = data[g].player) =>
                  o.err = "Ok"
           /\ o.err = "Ok" =>
                  /\ o.lamports = lamports
                  /\ \A a \in Addrs : a # g => o.data[a] = data[a]
                  /\ o.data[g].is_settled /\ ~o.data[g].is_win
                  /\ o.data[g].player = data[g].player
                  /\ o.data[g].bet_amount = data[g].bet_amount

\* A record settled as a loss whose balance is still the storage deposit
\* and the stake of 40, while its player has spent both.
C27_Witness ==
    \E g \in SettledGames :
        /\ ~data[g].is_win /\ data[g].bet_amount = 40
        /\ lamports[g] = RentGame + 40
        /\ lamports[data[g].player] = RichBalance - RentGame - 40

\* ------------------------------------------------------------------------
\* C28: a successful SettleGame changes the game record to the same
\* player and bet_amount with is_settled = true and exactly the supplied
\* is_win, win_amount and result_hash, and changes no other record; an open
\* record has is_win = false, win_amount = 0 and the zero hash; and a step
\* changes is_win, win_amount or result_hash of a record only when it takes
\* the record from open to settled, and never reopens a record.
C28_SettleStores ==
    \A g \in OpenGames, c \in Casinos, s \in Wallets, w \in BOOLEAN,
       amt \in AllWins, h \in AllHashes :
        LET o == Settle(s, TRUE, c, g, data[g].player, w, amt, h)
        IN o.err = "Ok" =>
               o.data = [data EXCEPT ![g] =
                            GameState(data[g].player, data[g].bet_amount,
                                      TRUE, w, amt, h)]

C28_OpenIsBlank ==
    \A g \in OpenGames :
        /\ ~data[g].is_win
        /\ data[g].win_amount = 0
        /\ data[g].result_hash = ZeroHash

C28_WriteOnce ==
    \A g \in Addrs :
        IsGame(data[g]) =>
            /\ IsGame(data'[g])
            /\ data[g].is_settled => data'[g].is_settled
            /\ (\/ data'[g].is_win # data[g].is_win
                \/ data'[g].win_amount # data[g].win_amount
                \/ data'[g].result_hash # data[g].result_hash) =>
                   (~data[g].is_settled /\ data'[g].is_settled)

C28_ResultWrittenOnce ==
    [](C28_SettleStores /\ C28_OpenIsBlank) /\ [][C28_WriteOnce]_vars

\* A record settled as a win of 41 with the hash supplied, on which a
\* further settlement with other values is refused.
C28_Witness ==
    \E g \in SettledGames, c \in Casinos :
        /\ data[g] = GameState(data[g].player, 40, TRUE, TRUE, 41, "h1")
        /\ Settle(data[c].authority, TRUE, c, g, data[g].player, FALSE, 0,
                  "h2").err = "GameAlreadySettled"

\* ------------------------------------------------------------------------
\* C29: no step changes the authority of a configuration record or the
\* player or bet_amount of a game record, and no step removes either kind
\* of record; every successful SettleGame, UpdateParams, AddOperator and
\* RemoveOperator leaves these fields of every record as they were.
C29_SameIdentity(dat) ==
    \A a \in Addrs :
        /\ IsCasino(data[a]) =>
               IsCasino(dat[a]) /\ dat[a].authority = data[a].authority
        /\ IsGame(data[a]) =>
               /\ IsGame(dat[a])
               /\ dat[a].player = data[a].player
               /\ dat[a].bet_amount = data[a].bet_amount

C29_HandlersKeepIdentity ==
    \A c \in Casinos, s \in Wallets :
        /\ \A g \in Games, w \in BOOLEAN, amt \in WinInputs :
              C29_SameIdentity(Settle(s, TRUE, c, g, data[g].player, w, amt,
                                      "h1").data)
        /\ \A e \in Opt(EdgeInputs), mn \in Opt(MinInputs),
              mx \in Opt(MaxInputs) :
              C29_SameIdentity(C5_Update(s, TRUE, c, e, mn, mx).data)
        /\ \A op \in Addrs :
              /\ C29_SameIdentity(C5_Add(s, TRUE, c, op).data)
              /\ C29_SameIdentity(C5_Remove(s, TRUE, c, op).data)

C29_IdentityKept == C29_SameIdentity(data')

C29_IdentityFieldsFixed ==
    [](C29_HandlersKeepIdentity) /\ [][C29_IdentityKept]_vars

\* A settled record of bet_amount 40 beside a configuration that has been
\* given a second operator.
C29_Witness ==
    \E g \in SettledGames, c \in Casinos :
        /\ data[g].bet_amount = 40 /\ data[g].is_win
        /\ data[g].win_amount # data[g].bet_amount
        /\ Len(data[c].operators) = 2
        /\ data[c].operators[1] = data[c].authority
        /\ c = find_casino_state_address(data[c].authority)

\* ------------------------------------------------------------------------
\* C30: every game record settled as a win has win_amount within the
\* bound floor(bet_amount * 10000 / (10000 - house_edge)).  As stated, for
\* the house_edge that a configuration record has now, UpdateParams after
\* the settlement included; as amended, for the house_edge that a
\* configuration record had in the state in which the record was settled,
\* and so, in every state, for the largest house_edge (1000).
C30_Original ==
    \A g \in SettledGames :
        data[g].is_win =>
            \E c \in Casinos :
                data[g].win_amount
                    <= FloorBound(data[g].bet_amount, data[c].house_edge)

C30_WithinWidestBound ==
    \A g \in SettledGames :
        data[g].is_win =>
            data[g].win_amount <= FloorBound(data[g].bet_amount, MaxHouseEdge)

C30_BoundAtSettlement ==
    \A g \in Addrs :
        (/\ IsGame(data[g]) /\ ~data[g].is_settled
         /\ data'[g].is_settled /\ data'[g].is_win) =>
            \E c \in Casinos :
                data'[g].win_amount
                    <= FloorBound(data[g].bet_amount, data[c].house_edge)

C30_BoundWhenSettled ==
    [](C30_WithinWidestBound) /\ [][C30_BoundAtSettlement]_vars

\* A record settled as a win of 41 on a bet of 40, which the house_edge of
\* 1000 allowed, in a state in which every configuration record has
\* house_edge 0.
C30_Witness ==
    \E g \in SettledGames :
        /\ data[g].is_win /\ data[g].bet_amount = 40
        /\ data[g].win_amount = 41
        /\ Casinos # {}
        /\ \A c \in Casinos : data[c].house_edge = 0

\* ------------------------------------------------------------------------
\* Helpers of the dispatcher claim: instructions, their accounts, and the
\* payloads that are no encoding of an instruction.
GoodInstructions ==
    {IxInitialize(e, 0, 40) : e \in {0, 250, MaxHouseEdge + 1}}
    \cup {IxInitialize(250, 50, BigBet)}
    \cup {IxPlaceBet(id, bet) : id \in GameIds, bet \in BetInputs}
    \cup {IxSettleGame(w, amt, "h1") : w \in BOOLEAN, amt \in WinInputs}
    \cup {IxSettleGame(TRUE, 0, "h2")}
    \cup {IxUpdateParams(e, mn, mx) :
            e \in Opt({250}), mn \in Opt({50}), mx \in Opt({40})}
    \cup {IxAddOperator, IxRemoveOperator}

GoodPayloads == {try_to_vec(ix) : ix \in GoodInstructions}

BadPayloads ==
    {<<>>, <<6>>, <<7, 0>>, <<255>>, <<3, 2>>, <<3, 2, 0, 0>>,
     <<3, 0, 0, 2>>, <<3, 1, 250>>, <<1, 0, 0, 0>>}
    \cup {SubSeq(d, 1, Len(d) - 1) : d \in GoodPayloads}
    \cup {d \o <<0>> : d \in GoodPayloads}
    \cup {<<6>> \o Tail(d) : d \in GoodPayloads}

AccountsOf(ix, s, c, g, p) ==
    CASE ix.kind = "Initialize" -> <<s, c, SystemProgram>>
      [] ix.kind = "PlaceBet" -> <<s, c, g, SystemProgram>>
      [] ix.kind = "SettleGame" -> <<s, c, g, p, SystemProgram>>
      [] ix.kind = "UpdateParams" -> <<s, c>>
      [] OTHER -> <<s, c, p>>

\* The handler of an instruction, called with its fields.
HandlerOf(ix, s, f, c, g, p) ==
    CASE ix.kind = "Initialize" ->
            process_initialize(lamports, data, s, f, c, ix.house_edge,
                               ix.min_bet, ix.max_bet)
      [] ix.kind = "PlaceBet" -> Place(s, f, c, g, ix.game_id, ix.bet_amount)
      [] ix.kind = "SettleGame" ->
            Settle(s, f, c, g, p, ix.is_win, ix.win_amount, ix.result_hash)
      [] ix.kind = "UpdateParams" ->
            C5_Update(s, f, c, ix.house_edge, ix.min_bet, ix.max_bet)
      [] ix.kind = "AddOperator" -> C5_Add(s, f, c, p)
      [] ix.kind = "RemoveOperator" -> C5_Remove(s, f, c, p)

Dispatch(accounts, f, payload) ==
    process_instruction(lamports, data, overflow_checks, accounts, f, payload)

\* ------------------------------------------------------------------------
\* C31: the encoding of each instruction of the six kinds decodes to that
\* instruction, and the dispatcher gives it, with its accounts, the outcome
\* of the handler of its kind; a payload that is empty, has an opcode above
\* 5, lacks its last byte, carries one byte more, or has an Option tag
\* other than 0 and 1, fails with InvalidInstruction and changes nothing,
\* whatever accounts come with it.
C31_Decodes ==
    /\ \A ix \in GoodInstructions :
          try_from_slice_instruction(try_to_vec(ix)) = Some(ix)
    /\ \A d \in BadPayloads : try_from_slice_instruction(d) = None

C31_Routes ==
    \A ix \in GoodInstructions :
        LET payload == try_to_vec(ix)
        IN \A s \in Wallets, c \in CasinoAddrs, g \in GameAddrs :
              Dispatch(AccountsOf(ix, s, c, g, W2), TRUE, payload)
                  = HandlerOf(ix, s, TRUE, c, g, W2)

C31_Rejects ==
    \A d \in BadPayloads :
        LET o == Dispatch(<<W1, find_casino_state_address(W1),
                            find_game_address("g1"), W2, SystemProgram>>,
                          TRUE, d)
        IN o.err = "InvalidInstruction" /\ Unchanged(o)

C31_Dispatcher == C31_Decodes /\ C31_Routes /\ C31_Rejects

\* An open record and a configuration, on which the encoded loss
\* settlement signed by the authority is carried out by the dispatcher, and
\* the same payload without its last byte or with one more is refused.
C31_Witness ==
    \E g \in OpenGames, c \in Casinos :
        LET accounts == <<data[c].authority, c, g, data[g].player,
                          SystemProgram>>
            payload == try_to_vec(IxSettleGame(FALSE, 0, "h1"))
        IN /\ Len(payload) = 42
           /\ Dispatch(accounts, TRUE, payload).err = "Ok"
           /\ Dispatch(accounts, TRUE, payload).data[g].is_settled
           /\ Dispatch(accounts, TRUE, SubSeq(payload, 1, 41)).err
                  = "InvalidInstruction"
           /\ Dispatch(accounts, TRUE, payload \o <<0>>).err
                  = "InvalidInstruction"

\* ------------------------------------------------------------------------
\* C32: on an open game record whose bet_amount * 10000 does not fit in
\* u64, every SettleGame with is_win = true that is signed by an operator
\* of the supplied configuration and names the stored player fails with
\* ArithmeticOverflow, whatever win_amount and house_edge, and no SettleGame
\* with is_win = true succeeds on it at all; the record stays open and no
\* record and no balance changes.
C32_OverflowSignalled ==
    \A g \in OpenGames :
        ~ProductFits(data[g].bet_amount) =>
            \A c \in Casinos, s \in Wallets, p \in Wallets, amt \in AllWins :
                LET o == Settle(s, TRUE, c, g, p, TRUE, amt, "h1")
                IN /\ o.err # "Ok"
                   /\ Unchanged(o)
                   /\ ~o.data[g].is_settled
                   /\ (Member(data[c].operators, s) /\ p = data[g].player
                          => o.err = "ArithmeticOverflow")

\* An open record of a bet of BigBet, whose winning settlement by the
\* authority of a configuration overflows, and whose loss settlement does
\* not.
C32_Witness ==
    \E g \in OpenGames, c \in Casinos :
        /\ data[g].bet_amount = BigBet
        /\ ~ProductFits(BigBet)
        /\ Settle(data[c].authority, TRUE, c, g, data[g].player, TRUE, 0,
                  "h1").err = "ArithmeticOverflow"
        /\ Settle(data[c].authority, TRUE, c, g, data[g].player, FALSE, 0,
                  "h1").err = "Ok"

\* ------------------------------------------------------------------------
\* C33: the payout bound of an open record's bet is an error, not a
\* number, for every house_edge_bps >= 10000, and the configurations that
\* are reachable keep the denominator 10000 - house_edge_bps between 9000
\* and 10000.
NonPositiveDenominatorEdges == {BasisPoints, BasisPoints + 1, 65535}

C33_NonPositiveDenominatorFails ==
    \A g \in OpenGames, bps \in NonPositiveDenominatorEdges :
        ~max_possible_win(data[g].bet_amount, bps).ok

C33_DenominatorInRange ==
    \A c \in Casinos :
        /\ BasisPoints - data[c].house_edge >= BasisPoints - MaxHouseEdge
        /\ BasisPoints - data[c].house_edge <= BasisPoints

C33_BoundNeedsDenominator ==
    C33_NonPositiveDenominatorFails /\ C33_DenominatorInRange

\* What the computation does on the open records: an error for 10000
\* exactly, and for every larger house_edge_bps the bound bet_amount * 10000
\* (a division by 1) whenever that product fits.
C33_UnwrapOrOne ==
    \A g \in OpenGames :
        LET bet == data[g].bet_amount
        IN /\ ~max_possible_win(bet, BasisPoints).ok
           /\ \A bps \in {BasisPoints + 1, 65535} :
                 max_possible_win(bet, bps)
                     = (IF ProductFits(bet) THEN Num(bet * BasisPoints)
                        ELSE NoNum)

\* ------------------------------------------------------------------------
\* C34: every settled game record with is_win = false has win_amount = 0.
C34_LossRecordsZero ==
    \A g \in SettledGames : ~data[g].is_win => data[g].win_amount = 0

\* What the program keeps instead: a loss settlement by an operator stores
\* the win_amount it was given, whatever it is, and moves nothing.
C34_LossStoresSupplied ==
    \A g \in OpenGames, c \in Casinos, amt \in AllWins :
        LET o == Settle(data[c].authority, TRUE, c, g, data[g].player, FALSE,
                        amt, "h1")
        IN /\ o.err = "Ok"
           /\ o.data[g].win_amount = amt
           /\ ~o.data[g].is_win
           /\ o.lamports = lamports

\* ------------------------------------------------------------------------
\* C35: a PlaceBet that creates a record succeeds only when the player's
\* balance covers bet_amount and the storage deposit of the record; a
\* winning SettleGame succeeds only when the record's balance is at least
\* win_amount; and no balance is above the value in existence, as a
\* balance that wrapped around on a debit would be.
TotalValue == PoorBalance + RichBalance

C35_PlaceBetCovered ==
    \A c \in Casinos, p \in Wallets, id \in GameIds, bet \in AllBets :
        LET g == find_game_address(id)
        IN (data[g] = NoData /\ Place(p, TRUE, c, g, id, bet).err = "Ok") =>
               lamports[p] - RentGame >= bet

C35_PayoutCovered ==
    \A g \in OpenGames, c \in Casinos, a \in Wallets, amt \in AllWins :
        Settle(a, TRUE, c, g, data[g].player, TRUE, amt, "h1").err = "Ok" =>
            lamports[g] >= amt

C35_NoBalanceWrapped == \A a \in Addrs : lamports[a] <= TotalValue

C35_NoDebitUnderflows ==
    C35_PlaceBetCovered /\ C35_PayoutCovered /\ C35_NoBalanceWrapped

\* The same in the build with overflow checks, where a debit that does not
\* fit aborts the instruction.
C35_CheckedBuild == overflow_checks => C35_NoDebitUnderflows

\* ------------------------------------------------------------------------
\* C36: a bet placed under one configuration record is not settled by a
\* SettleGame that supplies another configuration record and is signed by
\* an identity that is an operator of that other configuration only.
C36_SettledUnderOwnConfig ==
    \A c \in Casinos, other \in Casinos, p \in Wallets, s \in Wallets,
       id \in GameIds, bet \in BetInputs, w \in BOOLEAN, amt \in WinInputs :
        LET g == find_game_address(id)
            placed == Place(p, TRUE, c, g, id, bet)
            settled == process_settle_game(placed.lamports, placed.data,
                                           overflow_checks, s, TRUE, other, g,
                                           p, w, amt, "h1")
        IN (/\ other # c
            /\ Member(data[other].operators, s)
            /\ ~Member(data[c].operators, s)
            /\ data[g] = NoData
            /\ placed.err = "Ok") => settled.err # "Ok"

\* What decides instead is the operator list of whatever configuration
\* record the instruction supplies: on an open record every operator of
\* any configuration record settles a loss.
C36_AnyConfigSettles ==
    \A g \in OpenGames, c \in Casinos, s \in Wallets :
        Member(data[c].operators, s) =>
            Settle(s, TRUE, c, g, data[g].player, FALSE, 0, "h1").err = "Ok"

\* ------------------------------------------------------------------------
\* C37: after a successful UpdateParams by the authority, a winning
\* SettleGame on an already open record (signed by the authority, naming
\* the stored player, bet_amount * 10000 within u64) is refused with
\* ExpectedAmountMismatch exactly when win_amount exceeds
\* floor(bet_amount * 10000 / (10000 - house_edge_bps)) for the house_edge
\* the configuration has after the update; and a loss settlement succeeds
\* after the update whether or not bet_amount lies within the updated
\* min_bet and max_bet.
C37_Wins == {0, 40, 41, 44, 45}

C37_BoundOfCurrentEdge ==
    \A g \in OpenGames, c \in Casinos, e \in Opt(AllEdges),
       mn \in Opt({0, 41}), mx \in Opt({39, BigBet}), amt \in C37_Wins :
        LET a == data[c].authority
            bet == data[g].bet_amount
            u == C5_Update(a, TRUE, c, e, mn, mx)
            bps == Given(e, data[c].house_edge)
            win == process_settle_game(u.lamports, u.data, overflow_checks, a,
                                       TRUE, c, g, data[g].player, TRUE, amt,
                                       "h1")
            loss == process_settle_game(u.lamports, u.data, overflow_checks, a,
                                        TRUE, c, g, data[g].player, FALSE, amt,
                                        "h1")
        IN u.err = "Ok" =>
               /\ u.data[c].house_edge = bps
               /\ u.data[g] = data[g]
               /\ loss.err = "Ok"
               /\ win.err # "InvalidBetAmount"
               /\ ProductFits(bet) =>
                     (win.err = "ExpectedAmountMismatch"
                          <=> amt > FloorBound(bet, bps))

\* An open record of a bet of 40 under house_edge 1000: a win of 41 passes
\* the bound now, and is refused after the authority sets house_edge to 0
\* and min_bet to 41; the loss settlement still succeeds although 40 is
\* below the new min_bet.
C37_Witness ==
    \E g \in OpenGames, c \in Casinos :
        LET a == data[c].authority
            u == C5_Update(a, TRUE, c, Some(0), Some(41), None)
        IN /\ data[g].bet_amount = 40
           /\ data[c].house_edge = MaxHouseEdge
           /\ Settle(a, TRUE, c, g, data[g].player, TRUE, 41, "h1").err
                  # "ExpectedAmountMismatch"
           /\ u.err = "Ok"
           /\ u.data[c].min_bet = 41
           /\ process_settle_game(u.lamports, u.data, overflow_checks, a, TRUE,
                                  c, g, data[g].player, TRUE, 41, "h1").err
                  = "ExpectedAmountMismatch"
           /\ process_settle_game(u.lamports, u.data, overflow_checks, a, TRUE,
                                  c, g, data[g].player, FALSE, 0, "h1").err
                  = "Ok"

\* ------------------------------------------------------------------------
\* Scheduling for the liveness of settlement: the authority of a
\* configuration sends the loss settlement of an open record, naming its
\* stored player.  SettleLoss is one of the instructions of SettleGame.
SettleLoss ==
    \E g \in OpenGames, c \in Casinos :
        Apply(process_settle_game(lamports, data, overflow_checks,
                                  data[c].authority, TRUE, c, g,
                                  data[g].player, FALSE, 0, "h1"))

\* The program with that instruction scheduled fairly: it is not postponed
\* for ever while it can be sent.
SpecLive == Init /\ [][Next]_vars /\ WF_vars(SettleLoss)

\* ------------------------------------------------------------------------
\* C38: in every reachable state, for every open game record and every
\* configuration record, the SettleGame with is_win = false signed by that
\* configuration's authority and naming the record's stored player
\* succeeds and settles the record, whatever win_amount and result_hash it
\* carries; and when that instruction is scheduled fairly, every open
\* record is eventually settled.
C38_AuthoritySettlesLoss ==
    \A g \in OpenGames, c \in Casinos, amt \in WinInputs, h \in AllHashes :
        LET o == Settle(data[c].authority, TRUE, c, g, data[g].player, FALSE,
                        amt, h)
        IN /\ o.err = "Ok"
           /\ o.data[g].is_settled
           /\ Member(data[c].operators, data[c].authority)

C38_EventuallySettled ==
    \A g \in GameAddrs : (g \in OpenGames) ~> (g \in SettledGames)

C38_OpenIsSettled == [](C38_AuthoritySettlesLoss) /\ C38_EventuallySettled

\* An open record next to a configuration whose parameters and operators
\* were changed (an operator added, house_edge at its maximum), which its
\* authority still settles as a loss.
C38_Witness ==
    \E g \in OpenGames, c \in Casinos :
        /\ Len(data[c].operators) = 2
        /\ data[c].house_edge = MaxHouseEdge
        /\ ENABLED SettleLoss
        /\ Settle(data[c].authority, TRUE, c, g, data[g].player, FALSE, 0,
                  "h1").data[g].is_settled

\* ------------------------------------------------------------------------
\* C39: a RemoveOperator signed by the authority, of an operator X other
\* than the authority, succeeds and leaves a configuration record of which
\* X is no operator, and on the ledger it leaves every SettleGame signed
\* by X that supplies this configuration record fails with Unauthorized
\* and changes nothing; this lasts, because an identity that is no
\* operator of a configuration record becomes one only by a step that is
\* the authority's successful AddOperator of that identity; and no
\* identity is twice in operators, so that one removal removes it.
C39_RevokedIsRejected ==
    \A c \in Casinos, x \in Wallets :
        (Member(data[c].operators, x) /\ x # data[c].authority) =>
            LET r == RemoveOp(c, x)
            IN /\ r.err = "Ok"
               /\ ~Member(r.data[c].operators, x)
               /\ \A g \in Addrs, p \in Wallets, w \in BOOLEAN,
                     amt \in WinInputs :
                     LET o == process_settle_game(r.lamports, r.data,
                                                  overflow_checks, x, TRUE, c,
                                                  g, p, w, amt, "h1")
                     IN /\ o.err = "Unauthorized"
                        /\ o.lamports = r.lamports
                        /\ o.data = r.data

C39_AtMostOnce == \A c \in Casinos : NoDuplicates(data[c].operators)

C39_OnlyAddOperatorRestores ==
    \A c \in Casinos, x \in Wallets :
        (~Member(data[c].operators, x) /\ Member(data'[c].operators, x)) =>
            /\ AddOp(c, x).err = "Ok"
            /\ data' = AddOp(c, x).data
            /\ lamports' = lamports

RECURSIVE SumOver(_, _)
SumOver(lam, addrs) ==
    IF addrs = {} THEN 0
    ELSE LET a == CHOOSE x \in addrs : TRUE
         IN lam[a] + SumOver(lam, addrs \ {a})

\* No single balance exceeds the value that exists (a wrapped one does),
\* and together they are that value.
C40_SumIsTotal ==
    /\ \A a \in Addrs : lamports[a] <= TotalValue
    /\ SumOver(lamports, Addrs) = TotalValue

C40_SettledBalanceKept ==
    \A g \in SettledGames : lamports'[g] = lamports[g]

C40_ConservedAndFrozen ==
    [](C40_SumIsTotal) /\ [][C40_SettledBalanceKept]_vars

\* The parts that hold: the escrow of a settled record is frozen in both
\* builds, and value is conserved in the build with overflow checks.
C40_FrozenAlways == [][C40_SettledBalanceKept]_vars

C40_ConservedWhenChecked == overflow_checks => C40_SumIsTotal

====
